---- MODULE Spec2Model ----
(***************************************************************************)
(* A model of dynamo/tools/cell_velocities.py: the velocity projection     *)
(* orchestrator (cell_velocities), the steady-state drivers                *)
(* (stationary_distribution, diffusion), the empirical correlation kernel  *)
(* (_empirical_vec) and the random control generator (numba_random_seed,   *)
(* permute_rows_nsign).                                                    *)
(*                                                                         *)
(* Each part of the program has its own specification (SpecCV, SpecSD,     *)
(* ...); the variables of the other parts stay at their idle values.       *)
(***************************************************************************)
EXTENDS Integers, Sequences, FiniteSets, TLC

VARIABLES
    \* ---- cell_velocities: the caller's container and the last call
    adata_uns,          \* adata.uns: key -> value tag (DOMAIN = keys present)
    adata_obsm,         \* adata.obsm: key -> value tag
    adata_var,          \* adata.var: set of column keys
    umap_trans_defined, \* whether the star import of .Markov binds `umap_trans`
    cv_args,            \* arguments of the last cell_velocities call
    cv_locals,          \* local names bound when the last call ended: name -> tag
    cv_invoked,         \* collaborators the last call invoked before it ended
    cv_written,         \* container keys the last call wrote
    cv_raised,          \* "none" (returned normally) or the exception raised
    calls               \* number of calls made so far by the caller

cvVars == <<adata_uns, adata_obsm, adata_var, umap_trans_defined, cv_args,
            cv_locals, cv_invoked, cv_written, cv_raised>>

\* ------------------------------------------------------------------------
\* Bounds of the model
\* ------------------------------------------------------------------------
MaxCalls == 2
MaxSteadyCalls == 1
MaxSteps == 2
\* the random control generator: the matrix is PermRows x PermCols with entries
\* in -1 .. MaxVal - 1, the seeds are 0 .. MaxSeed, a generator starts in one
\* of the states 0 .. MaxEntropy and has RngMod states
PermRows == 2
PermCols == 3
MaxVal == 3
MaxSeed == 2
MaxEntropy == 2
RngMod == 16

\* ------------------------------------------------------------------------
\* Small helpers on functions used as Python dicts
\* ------------------------------------------------------------------------
EmptyDict == [k \in {} |-> "none"]

\* d[k] = v, as a Python dict assignment
DictSet(d, k, v) == [x \in (DOMAIN d) \cup {k} |-> IF x = k THEN v ELSE d[x]]

\* ------------------------------------------------------------------------
\* cell_velocities
\* ------------------------------------------------------------------------
Methods == {"analytical", "empirical", "transform", "diffusion_map"}
SupportedMethods == {"analytical", "empirical", "transform"}

\* The only basis modelled: keys are 'velocity_umap', 'grid_velocity_umap', ...
CvArgs ==
    [method : Methods,
     calc_rnd_vel : BOOLEAN,
     neighbors_from_basis : BOOLEAN,
     use_mnn : BOOLEAN,
     vkey : {"velocity_S", "velocity_N"},
     n_pca_components : {"None", "30"}]

NoArgs == [method |-> "none"]

\* A frame: the container and the locals as the call proceeds.
\* raised # "none" means the call has ended with that exception.
Frame(uns, obsm, var) ==
    [uns |-> uns, obsm |-> obsm, var |-> var, locals |-> EmptyDict,
     invoked |-> {}, written |-> {}, raised |-> "none"]

Raise(f, e) == [f EXCEPT !.raised = e]
Bind(f, name, v) == [f EXCEPT !.locals = DictSet(@, name, v)]
BindAll(f, names, v) ==
    [f EXCEPT !.locals = [x \in (DOMAIN @) \cup names |->
                             IF x \in names THEN v ELSE @[x]]]
Invoke(f, callee) == [f EXCEPT !.invoked = @ \cup {callee}]
WriteUns(f, k, v) ==
    [f EXCEPT !.uns = DictSet(@, k, v), !.written = @ \cup {<<"uns", k>>}]
WriteObsm(f, k, v) ==
    [f EXCEPT !.obsm = DictSet(@, k, v), !.written = @ \cup {<<"obsm", k>>}]
WriteVar(f, k) ==
    [f EXCEPT !.var = @ \cup {k}, !.written = @ \cup {<<"var", k>>}]
Bound(f, name) == name \in DOMAIN f.locals

\* lines 72-77: key resolution and the optional seeding of numba's generator
CvSeed(a, f) ==
    IF a.calc_rnd_vel THEN Invoke(f, "numba_random_seed") ELSE f

\* lines 79-85: the neighbor graph is fetched only when it is in adata.uns and
\* neighbors_from_basis is off; otherwise neighbors/dist/indices stay unbound
CvNeighbors(a, f) ==
    IF (~a.neighbors_from_basis) /\ "neighbors" \in DOMAIN f.uns
    THEN IF a.use_mnn
         THEN IF "mnn" \in DOMAIN f.uns
              THEN Invoke(BindAll(f, {"neighbors", "indices", "dist"}, "graph"),
                          "extract_indices_dist_from_graph")
              ELSE Raise(f, "KeyError")
         ELSE BindAll(f, {"neighbors", "indices", "dist"}, "graph")
    ELSE f

\* lines 87-93: gene selection (writes adata.var.use_for_velocity), X and V_mat
CvGenes(a, f) ==
    IF f.raised # "none" THEN f
    ELSE BindAll(WriteVar(Invoke(f, "set_velocity_genes"), "use_for_velocity"),
                 {"X", "V_mat"}, "real")

\* lines 95-105: the embedding, fetched or derived by reduceDimension
CvEmbedding(a, f) ==
    IF f.raised # "none" THEN f
    ELSE IF a.vkey = "velocity_S"
         THEN IF "X_umap" \in DOMAIN f.obsm
              THEN Bind(f, "X_embedding", "embedding")
              ELSE Raise(f, "KeyError")
         ELSE Bind(WriteObsm(Invoke(f, "reduceDimension"), "X_layer_umap", "embedding"),
                   "X_embedding", "embedding")

\* The layers of the container, two cells by three genes.  An entry of a
\* velocity layer is <<v>> when it is finite and <<>> when it is not (NaN):
\* the spliced and the new-RNA velocities are undefined for different genes.
Genes == <<1, 2, 3>>
layers(key) ==
    CASE key = "velocity_S" -> << <<<<1>>, <<0>>, <<>>>>, <<<<-1>>, <<0>>, <<>>>> >>
      [] key = "velocity_N" -> << <<<<>>, <<1>>, <<1>>>>, <<<<>>, <<-1>>, <<-1>>>> >>
      [] OTHER              -> << <<0, 1, 0>>, <<2, 1, 4>> >>

\* M[:, cols]
SelectCols(M, cols) ==
    [i \in DOMAIN M |-> [k \in DOMAIN cols |-> M[i][cols[k]]]]

\* get_finite_inds(V_mat): the columns of V_mat whose entries are all finite
get_finite_inds(V_mat) ==
    SelectSeq(Genes, LAMBDA j : \A i \in DOMAIN V_mat : V_mat[i][j] # <<>>)

\* lines 92-105: X and V_mat of a call, the layers restricted to the genes of
\* finite velocity (every gene of the model is selected for velocity)
CvX(a) == SelectCols(layers("expression"), get_finite_inds(layers(a.vkey)))
CvV(a) ==
    LET V_mat == layers(a.vkey)
        fin == SelectCols(V_mat, get_finite_inds(V_mat))
    IN  [i \in DOMAIN fin |-> [k \in DOMAIN fin[i] |-> fin[i][k][1]]]

\* A + B and A - B on matrices of equal shape
MatAdd(A, B) == [i \in DOMAIN A |-> [k \in DOMAIN A[i] |-> A[i][k] + B[i][k]]]
MatSub(A, B) == [i \in DOMAIN A |-> [k \in DOMAIN A[i] |-> A[i][k] - B[i][k]]]

\* PCA(n_components = min(n_pca_components, X.shape[1] - 1)).fit(X) for the
\* two-cell matrices of the model, which have two columns and hence one
\* component: mean_ is the mean of the two rows, and the principal axis is the
\* direction in which the rows differ, a unit vector of one gene here.
PCA_fit(X) ==
    [mean_ |-> [k \in DOMAIN X[1] |-> (X[1][k] + X[2][k]) \div 2],
     components_ |-> [k \in DOMAIN X[1] |-> IF X[1][k] # X[2][k] THEN 1 ELSE 0]]

RECURSIVE DotFrom(_, _, _)
DotFrom(u, v, k) ==
    IF k > Len(u) THEN 0 ELSE u[k] * v[k] + DotFrom(u, v, k + 1)

\* pca_fit.transform(Y) = (Y - mean_) . components_^T, one column
pca_transform(pca_fit, Y) ==
    [i \in DOMAIN Y |->
        <<DotFrom([k \in DOMAIN Y[i] |-> Y[i][k] - pca_fit.mean_[k]],
                  pca_fit.components_, 1)>>]

\* lines 114-133: the optional PCA projection of X and V_mat.  The fit and
\* X_pca are taken from the container when it holds them.
CvPca(a, f) ==
    IF a.n_pca_components = "None" THEN f
    ELSE LET X == CvX(a)
             V_mat == CvV(a)
             g == IF "pca_fit" \notin DOMAIN f.uns
                  THEN LET pca_fit == PCA_fit(X)
                       IN  WriteObsm(WriteUns(Invoke(f, "PCA.fit"), "pca_fit", pca_fit),
                                     "X_pca", pca_transform(pca_fit, X))
                  ELSE IF "X_pca" \in DOMAIN f.obsm THEN f
                       ELSE WriteObsm(f, "X_pca", pca_transform(f.uns["pca_fit"], X))
             X_pca == g.obsm["X_pca"]
             Y_pca == pca_transform(g.uns["pca_fit"], MatAdd(X, V_mat))
             V_pca == MatSub(Y_pca, X_pca)
         IN  WriteObsm(WriteObsm(g, "X_pca", X_pca), "velocity_pca", V_pca)

\* lines 108-163: method == 'analytical'
CvAnalytical(a, f) ==
    LET g == CvPca(a, Bind(f, "kmc", "real"))
    IN  IF (~a.neighbors_from_basis) /\ ~Bound(g, "indices")
        THEN Raise(g, "UnboundLocalError")              \* line 138 reads indices
        ELSE LET h == BindAll(Invoke(g, "kmc.fit"),
                              {"T", "delta_X", "X_grid", "V_grid", "D"}, "real")
                 r == IF a.calc_rnd_vel
                      THEN BindAll(Invoke(Bind(h, "V_mat", "rnd"), "permute_rows_nsign"),
                                   {"kmc", "T_rnd", "delta_X_rnd", "X_grid_rnd",
                                    "V_grid_rnd", "D_rnd"}, "rnd")
                      ELSE h
             IN  WriteUns(r, "kmc", r.locals["kmc"])    \* line 163

\* lines 164-169: method == 'empirical'
CvEmpirical(a, f) ==
    IF ~(Bound(f, "indices") /\ Bound(f, "neighbors"))
    THEN Raise(f, "UnboundLocalError")                  \* line 165 reads them
    ELSE LET h == BindAll(Invoke(f, "_empirical_vec"),
                          {"T", "delta_X", "X_grid", "V_grid", "D"}, "real")
         IN  IF a.calc_rnd_vel
             THEN BindAll(Invoke(Bind(h, "V_mat", "rnd"), "permute_rows_nsign"),
                          {"T_rnd", "delta_X_rnd", "X_grid_rnd", "V_grid_rnd",
                           "D_rnd"}, "rnd")
             ELSE h

\* lines 170-174: method == 'transform'; umap_trans is no local, argument or
\* import of the file by name, so the read at line 171 succeeds only if the
\* star import binds it
CvTransform(a, f) ==
    IF ~umap_trans_defined THEN Raise(f, "NameError")
    ELSE BindAll(Invoke(f, "umap_trans.transform"),
                 {"X_v", "delta_X", "X_grid", "V_grid", "D"}, "real")

\* lines 108-174: the if/elif chain; it has no else branch
CvDispatch(a, f) ==
    IF f.raised # "none" THEN f
    ELSE CASE a.method = "analytical" -> CvAnalytical(a, f)
           [] a.method = "empirical"  -> CvEmpirical(a, f)
           [] a.method = "transform"  -> CvTransform(a, f)
           [] OTHER                   -> f

\* lines 176-185: the final store; each right-hand side is read before the
\* write, so an unbound local raises before its key is written
CvStore(a, f) ==
    IF f.raised # "none" THEN f
    ELSE IF ~Bound(f, "T") THEN Raise(f, "UnboundLocalError")
    ELSE LET g == WriteUns(WriteObsm(WriteUns(f, "transition_matrix", f.locals["T"]),
                                     "velocity_umap", f.locals["delta_X"]),
                           "grid_velocity_umap", f.locals["X_grid"])
         IN  IF ~a.calc_rnd_vel THEN g
             ELSE IF ~Bound(g, "T_rnd") THEN Raise(g, "UnboundLocalError")
             ELSE WriteUns(WriteObsm(WriteUns(g, "transition_matrix_rnd",
                                              g.locals["T_rnd"]),
                                     "velocity_umap_rnd", g.locals["delta_X_rnd"]),
                           "grid_velocity_umap_rnd", g.locals["X_grid_rnd"])

\* the whole function, lines 72-185
CvRun(a, f) ==
    CvStore(a, CvDispatch(a, CvEmbedding(a, CvGenes(a, CvNeighbors(a, CvSeed(a, f))))))

cell_velocities ==
    /\ calls < MaxCalls
    /\ \E a \in CvArgs :
         LET f == CvRun(a, Frame(adata_uns, adata_obsm, adata_var))
         IN  /\ cv_args' = a
             /\ adata_uns' = f.uns
             /\ adata_obsm' = f.obsm
             /\ adata_var' = f.var
             /\ cv_locals' = f.locals
             /\ cv_invoked' = f.invoked
             /\ cv_written' = f.written
             /\ cv_raised' = f.raised
    /\ calls' = calls + 1
    /\ UNCHANGED umap_trans_defined

\* The containers a caller can hand in: with or without a neighbor graph (and
\* its mutual-nearest-neighbor variant), with the 'umap' embedding or without.
InitCV ==
    /\ adata_uns \in {EmptyDict,
                      [k \in {"neighbors"} |-> "graph"],
                      [k \in {"neighbors", "mnn"} |-> "graph"]}
    /\ adata_obsm \in {EmptyDict, [k \in {"X_umap"} |-> "embedding"]}
    /\ adata_var \in {{}, {"use_for_dynamo"}}
    /\ umap_trans_defined \in BOOLEAN
    /\ cv_args = NoArgs
    /\ cv_locals = EmptyDict
    /\ cv_invoked = {}
    /\ cv_written = {}
    /\ cv_raised = "none"

IdleCV ==
    /\ adata_uns = EmptyDict
    /\ adata_obsm = EmptyDict
    /\ adata_var = {}
    /\ umap_trans_defined = FALSE
    /\ cv_args = NoArgs
    /\ cv_locals = EmptyDict
    /\ cv_invoked = {}
    /\ cv_written = {}
    /\ cv_raised = "none"

\* ------------------------------------------------------------------------
\* Exact rational arithmetic: <<n, d>> with d > 0 in lowest terms stands for
\* n/d; <<0, 0>> stands for a non-finite float (the NaN of 0/0)
\* ------------------------------------------------------------------------
Abs(x) == IF x < 0 THEN -x ELSE x
Sgn(x) == IF x < 0 THEN -1 ELSE IF x = 0 THEN 0 ELSE 1

RECURSIVE Gcd(_, _)
Gcd(a, b) == IF b = 0 THEN a ELSE Gcd(b, a % b)

NaN == <<0, 0>>
IsNaN(x) == x[2] = 0

Rat(n, d) ==
    IF d = 0 THEN NaN
    ELSE LET g == Gcd(Abs(n), Abs(d))
         IN  <<Sgn(d) * (n \div g), Abs(d) \div g>>

Zero == <<0, 1>>
One == <<1, 1>>
RAdd(x, y) == IF IsNaN(x) \/ IsNaN(y) THEN NaN
              ELSE Rat(x[1] * y[2] + y[1] * x[2], x[2] * y[2])
RNeg(x) == <<-x[1], x[2]>>
RSub(x, y) == RAdd(x, RNeg(y))
RMul(x, y) == IF IsNaN(x) \/ IsNaN(y) THEN NaN
              ELSE Rat(x[1] * y[1], x[2] * y[2])
\* x / y in floating point, for the cases that arise here: y # 0, or 0/0 = nan
RDiv(x, y) == IF IsNaN(x) \/ IsNaN(y) \/ y[1] = 0 THEN NaN
              ELSE Rat(x[1] * y[2], x[2] * y[1])
RLt(x, y) == x[1] * y[2] < y[1] * x[2]
RLe(x, y) == x[1] * y[2] <= y[1] * x[2]
RAbs(x) == <<Abs(x[1]), x[2]>>

RECURSIVE RSum(_)
RSum(s) == IF s = <<>> THEN Zero ELSE RAdd(s[1], RSum(Tail(s)))

\* ------------------------------------------------------------------------
\* Matrices over the cells: M[i][j], row i is the source, column j the target
\* ------------------------------------------------------------------------
Cells == 1..2
NumCells == Cardinality(Cells)

Row(M, i) == M[i]
Col(M, j) == [i \in Cells |-> M[i][j]]
RowSum(M, i) == RSum(Row(M, i))
ColSum(M, j) == RSum(Col(M, j))
Transpose(M) == [i \in Cells |-> [j \in Cells |-> M[j][i]]]
Identity == [i \in Cells |-> [j \in Cells |-> IF i = j THEN One ELSE Zero]]
MatMul(A, B) ==
    [i \in Cells |-> [j \in Cells |->
        RSum([k \in Cells |-> RMul(A[i][k], B[k][j])])]]
VecMat(v, B) == [j \in Cells |-> RSum([k \in Cells |-> RMul(v[k], B[k][j])])]

\* np.linalg.matrix_power(M, k)
RECURSIVE matrix_power(_, _)
matrix_power(M, k) == IF k = 0 THEN Identity ELSE MatMul(M, matrix_power(M, k - 1))

IsRowStochastic(M) ==
    \A i \in Cells : /\ \A j \in Cells : RLe(Zero, M[i][j])
                     /\ RowSum(M, i) = One

\* ------------------------------------------------------------------------
\* diffusion(M, P0, steps, backward)
\* ------------------------------------------------------------------------
VARIABLES
    transition_matrix,      \* the caller's matrix: adata.uns['transition_matrix'],
                            \* and the object passed to diffusion as M
    transition_matrix_rnd,  \* adata.uns['transition_matrix_rnd'], None if absent
    diff_args,              \* P0, steps, backward and the array kind of the last call
    diff_mu,                \* the value the last diffusion call returned
    diff_raised             \* "none" or the exception the last call raised

matVars == <<transition_matrix, transition_matrix_rnd>>
diffVars == <<diff_args, diff_mu, diff_raised>>

\* Python's None for an optional argument that is an array or a number
None == <<>>
Pending == [branch |-> "pending", cols |-> <<>>]

\* M / M.sum(1) and M / M.sum(0).  On an ndarray M.sum(axis) is 1-d and the
\* division broadcasts it along the last axis: entry (i, j) is divided by
\* element j of the sums.  On an np.matrix M.sum(1) is an n x 1 column, so
\* entry (i, j) is divided by element i; M.sum(0) is a 1 x n row.
DivBySum1(M, kind) ==
    [i \in Cells |-> [j \in Cells |->
        RDiv(M[i][j], IF kind = "matrix" THEN RowSum(M, i) ELSE RowSum(M, j))]]
DivBySum0(M) ==
    [i \in Cells |-> [j \in Cells |-> RDiv(M[i][j], ColSum(M, j))]]

\* lines 307-309
DiffusionBackward(M, backward, kind) ==
    IF backward THEN DivBySum1(Transpose(M), kind) ELSE M

\* np.isclose(x, y) is |x - y| <= atol + rtol * |y| with atol = 1e-8 and
\* rtol = 1e-5, for the two values of y the function uses.  For a rational
\* n/d # 0, |n/d| <= 1e-8 iff d div |n| >= 10^8, and |n/d| <= 100001/10^10 iff
\* d * 100001 >= |n| * 10^10, which with d = q|n| + r and
\* 99999 * 100001 = 10^10 - 1 is q >= 100000 or (q = 99999 and 100001 r >= |n|).
IsCloseTo0(x) ==
    ~IsNaN(x) /\ (x[1] = 0 \/ x[2] \div Abs(x[1]) >= 100000000)
IsCloseTo1(x) ==
    /\ ~IsNaN(x)
    /\ LET e == RSub(x, One)
           q == e[2] \div Abs(e[1])
           r == e[2] % Abs(e[1])
       IN  e[1] = 0 \/ q >= 100000 \/ (q = 99999 /\ 100001 * r >= Abs(e[1]))

\* scp.linalg.eig(M, left=True, right=False) on a 2 x 2 matrix, reduced to
\* what lines 317-318 read of it: the left eigenvectors whose eigenvalue is
\* close to 1, as columns.  With p the characteristic polynomial, 1 is an
\* eigenvalue iff p(1) = 1 - tr + det = 0, and a double one iff also
\* p'(1) = 2 - tr = 0.  (The other eigenvalue is tr - 1; IsClose decides
\* whether it is selected too.)  A simple eigenvalue 1 has one left
\* eigenvector up to scale, a row v with v(M - I) = 0; LAPACK scales it to
\* unit norm, and line 318 divides the scale out again.  A double eigenvalue 1
\* of a diagonalisable matrix means M = I, whose eigenvectors are the unit
\* vectors.
Trace2(M) == RAdd(M[1][1], M[2][2])
Det2(M) == RSub(RMul(M[1][1], M[2][2]), RMul(M[1][2], M[2][1]))
CharPolyAt1(M) == RAdd(RSub(One, Trace2(M)), Det2(M))
LeftNull2(A) ==
    IF <<A[2][1], RNeg(A[1][1])>> # <<Zero, Zero>>
    THEN <<A[2][1], RNeg(A[1][1])>>
    ELSE <<A[2][2], RNeg(A[1][2])>>
Eig1Columns(M) ==
    LET A == [i \in Cells |-> [j \in Cells |-> RSub(M[i][j], Identity[i][j])]]
    IN  CASE CharPolyAt1(M) # Zero /\ ~IsCloseTo1(RSub(Trace2(M), One)) -> <<>>
          [] CharPolyAt1(M) = Zero /\ ~IsCloseTo1(RSub(Trace2(M), One)) ->
                <<LeftNull2(A)>>
          [] M = Identity -> <<Identity[1], Identity[2]>>

\* np.sum over the selected columns, and the division of line 318
SumAll(cols) == RSum([c \in 1..Len(cols) |-> RSum(cols[c])])
DivAll(cols, s) == [c \in 1..Len(cols) |-> [i \in Cells |-> RDiv(cols[c][i], s)]]

\* lines 320-323: negative entries close to 0 are set to 0
ClipNoise(cols) ==
    [c \in 1..Len(cols) |-> [i \in Cells |->
        IF IsCloseTo0(cols[c][i]) /\ RLt(cols[c][i], Zero) THEN Zero
        ELSE cols[c][i]]]

\* lines 311-323: mu is the n x m array of the m selected columns
DiffusionEig(M) ==
    LET cols == Eig1Columns(M)
    IN  [branch |-> "eig", cols |-> ClipNoise(DivAll(cols, SumAll(cols)))]

\* np.nanmean(A, 0): the mean of each column over its entries that are not nan
NanMean0(A) ==
    [j \in Cells |->
        LET kept == {i \in Cells : ~IsNaN(A[i][j])}
        IN  IF kept = {} THEN NaN
            ELSE RDiv(RSum([i \in Cells |-> IF i \in kept THEN A[i][j] ELSE Zero]),
                      <<Cardinality(kept), 1>>)]

\* lines 325-326
DiffusionSteps(M, P0, steps) ==
    [branch |-> "steps",
     cols |-> <<IF P0 = None
                THEN NanMean0(MatMul(M, matrix_power(M, steps[1])))
                ELSE VecMat(P0, matrix_power(M, steps[1]))>>]

\* lines 307-328; steps is None or <<N>>, P0 is None or a vector over the cells
diffusion(M, P0, steps, backward, kind) ==
    LET M1 == DiffusionBackward(M, backward, kind)
    IN  IF steps = None THEN DiffusionEig(M1) ELSE DiffusionSteps(M1, P0, steps)

\* The call of diffusion on the caller's matrix.  The function only rebinds
\* its local name M (M.T is a view, the division makes a new array): the
\* caller's object is not written.  No statement of the function raises.
Uniform == [i \in Cells |-> <<1, NumCells>>]
DiffusionArgs ==
    [P0 : {None, Uniform, Identity[1]},
     steps : {None} \cup {<<n>> : n \in 0..MaxSteps},
     backward : BOOLEAN,
     kind : {"ndarray", "matrix"}]

diffusion_call ==
    /\ calls < MaxSteadyCalls
    /\ \E a \in DiffusionArgs :
         /\ diff_args' = a
         /\ diff_mu' = diffusion(transition_matrix, a.P0, a.steps, a.backward, a.kind)
    /\ diff_raised' = "none"
    /\ calls' = calls + 1
    /\ UNCHANGED matVars

\* Inputs: the 2 x 2 matrices over {0, 1/2, 1} whose rows sum to at most 1
\* (the row-stochastic ones and the deficient ones) and in which every cell
\* has an outgoing and an incoming weight: no row sum and no column sum is 0,
\* so that no normalisation divides by 0.
Halves == {Zero, <<1, 2>>, One}
SubStochasticRows == {r \in [Cells -> Halves] : RLe(RSum(r), One)}
TransitionMatrices ==
    {M \in [Cells -> SubStochasticRows] :
        \A i \in Cells : RowSum(M, i) # Zero /\ ColSum(M, i) # Zero}
RndMatrices ==
    {None,
     <<<< <<1, 2>>, <<1, 2>> >>, << <<1, 2>>, <<1, 2>> >>>>,
     <<<< Zero, One >>, << <<1, 2>>, <<1, 2>> >>>>}

NoDiffArgs == [P0 |-> None, steps |-> None, backward |-> FALSE, kind |-> "none"]

InitMat ==
    /\ transition_matrix \in TransitionMatrices
    /\ transition_matrix_rnd \in RndMatrices

IdleMat ==
    /\ transition_matrix = Identity
    /\ transition_matrix_rnd = None

InitDiff ==
    /\ diff_args = NoDiffArgs
    /\ diff_mu = Pending
    /\ diff_raised = "none"

\* ------------------------------------------------------------------------
\* stationary_distribution(adata, method, direction, calc_rnd)
\* ------------------------------------------------------------------------
VARIABLES
    adata_obs,    \* adata.obs: key -> the value stored under it
    sd_args,      \* arguments of the last stationary_distribution call
    sd_written,   \* the adata.obs keys the last call wrote
    sd_raised     \* "none" (returned normally) or the exception raised

sdVars == <<adata_obs, sd_args, sd_written, sd_raised>>

SdArgs ==
    [method : {"kmc", "diffusion"},
     direction : {"both", "forward", "backward", "sideways"},
     calc_rnd : BOOLEAN]

\* kmc.compute_stationary_distribution() of an engine whose P is the given
\* matrix: the engine is not part of this file, the stored value is kept as
\* the matrix it was computed from
KmcStationary(P) == [by |-> "kmc", of |-> P]
\* a value computed by diffusion
ByDiffusion(mu) == [by |-> "diffusion", of |-> mu]

\* T.T / T.T.sum(0), lines 215, 222, 233 and 238
KmcBackwardMatrix(T) == DivBySum0(Transpose(T))

\* The state of a call as it proceeds: adata.obs, the keys written, and the
\* exception that ended it
SdFrame(obs) == [obs |-> obs, written |-> {}, raised |-> "none"]
SdWrite(f, k, v) ==
    IF f.raised # "none" THEN f
    ELSE [f EXCEPT !.obs = DictSet(@, k, v), !.written = @ \cup {k}]
\* T_rnd = adata.uns['transition_matrix_rnd']
SdReadRnd(f) ==
    IF f.raised = "none" /\ transition_matrix_rnd = None
    THEN [f EXCEPT !.raised = "KeyError"] ELSE f

\* lines 210-239: method is 'kmc'
SdKmc(a, T, f) ==
    CASE a.direction = "both" ->
           LET g == SdWrite(SdWrite(f, "sink_steady_state_distribution",
                                    KmcStationary(T)),
                            "source_steady_state_distribution",
                            KmcStationary(KmcBackwardMatrix(T)))
               h == SdReadRnd(g)
           IN  IF (~a.calc_rnd) \/ h.raised # "none" THEN h
               ELSE SdWrite(SdWrite(h, "sink_steady_state_distribution_rnd",
                                    KmcStationary(transition_matrix_rnd)),
                            "source_steady_state_distribution_rnd",
                            KmcStationary(KmcBackwardMatrix(transition_matrix_rnd)))
      [] a.direction = "forward" ->
           LET g == SdWrite(f, "sink_steady_state_distribution", KmcStationary(T))
               h == SdReadRnd(g)
           IN  IF (~a.calc_rnd) \/ h.raised # "none" THEN h
               ELSE SdWrite(h, "sink_steady_state_distribution_rnd",
                            KmcStationary(transition_matrix_rnd))
      [] a.direction = "backward" ->
           LET g == SdWrite(f, "source_steady_state_distribution",
                            KmcStationary(KmcBackwardMatrix(T)))
               h == SdReadRnd(g)
           IN  IF (~a.calc_rnd) \/ h.raised # "none" THEN h
               ELSE SdWrite(h, "sink_steady_state_distribution_rnd",   \* line 239
                            KmcStationary(KmcBackwardMatrix(transition_matrix_rnd)))
      [] OTHER -> f

\* lines 241-259: any other method; T is transposed first (line 242), T_rnd
\* is not
SdDiffusion(a, T0, f) ==
    LET T == Transpose(T0)
        Tr == transition_matrix_rnd
    IN
    CASE a.direction = "both" ->
           LET g == SdWrite(SdWrite(f, "source_steady_state_distribution",
                                    ByDiffusion(diffusion(T, None, None, TRUE, "ndarray"))),
                            "sink_steady_state_distribution",
                            ByDiffusion(diffusion(T, None, None, FALSE, "ndarray")))
               h == SdReadRnd(g)
           IN  IF (~a.calc_rnd) \/ h.raised # "none" THEN h
               ELSE SdWrite(SdWrite(h, "source_steady_state_distribution_rnd",
                                    ByDiffusion(diffusion(Tr, None, None, TRUE, "ndarray"))),
                            "sink_steady_state_distribution_rnd",
                            ByDiffusion(diffusion(Tr, None, None, FALSE, "ndarray")))
      [] a.direction = "forward" ->
           LET g == SdWrite(f, "sink_steady_state_distribution",
                            ByDiffusion(diffusion(T, None, None, FALSE, "ndarray")))
               h == SdReadRnd(g)
           IN  IF (~a.calc_rnd) \/ h.raised # "none" THEN h
               ELSE SdWrite(h, "sink_steady_state_distribution_rnd",
                            ByDiffusion(diffusion(Tr, None, None, FALSE, "ndarray")))
      [] a.direction = "backward" ->
           LET g == SdWrite(f, "source_steady_state_distribution",
                            ByDiffusion(diffusion(T, None, None, TRUE, "ndarray")))
               h == SdReadRnd(g)
           IN  IF (~a.calc_rnd) \/ h.raised # "none" THEN h
               ELSE SdWrite(h, "source_steady_state_distribution_rnd",
                            ByDiffusion(diffusion(Tr, None, None, TRUE, "ndarray")))
      [] OTHER -> f

\* lines 208-259.  The string tests are `is` tests against literals; for the
\* literal arguments of a caller they decide as == does.  There is no else
\* branch for the direction and no raise statement: an unmatched direction
\* falls through to the implicit `return None`.
SdRun(a, f) ==
    IF a.method = "kmc" THEN SdKmc(a, transition_matrix, f)
    ELSE SdDiffusion(a, transition_matrix, f)

stationary_distribution ==
    /\ calls < MaxSteadyCalls
    /\ \E a \in SdArgs :
         LET f == SdRun(a, SdFrame(adata_obs))
         IN  /\ sd_args' = a
             /\ adata_obs' = f.obs
             /\ sd_written' = f.written
             /\ sd_raised' = f.raised
    /\ calls' = calls + 1
    /\ UNCHANGED matVars

NoSdArgs == [method |-> "none", direction |-> "none", calc_rnd |-> FALSE]

InitSD ==
    /\ adata_obs = EmptyDict
    /\ sd_args = NoSdArgs
    /\ sd_written = {}
    /\ sd_raised = "none"

\* ------------------------------------------------------------------------
\* _empirical_vec(X_pca, X_embedding, V_mat, indices, neg_cells_trick, ...)
\* ------------------------------------------------------------------------
VARIABLES
    emp_corr,             \* pearson_corr of lines 366-378: cell -> its k affinities
    emp_neg_cells_trick,  \* the normalization policy
    emp_T,                \* the transition matrix returned (EmpPending before)
    emp_delta_X,          \* the drift vectors returned
    emp_returned          \* whether the function has returned

empVars == <<emp_corr, emp_neg_cells_trick, emp_T, emp_delta_X, emp_returned>>

\* Three cells on a line in the embedding; indices[i] starts with i itself,
\* then its neighbors, nearest first.
EmpCells == 1..3
indices == <<<<1, 2, 3>>, <<2, 1, 3>>, <<3, 2, 1>>>>
X_embedding == [i \in EmpCells |-> <<i, 0>>]
knn(i) == Len(indices[i]) - 1                         \* line 357
j_vec(i) == Tail(indices[i])                          \* indices[i, 1:]

\* np.exp on the ratios the normalization forms, to three decimals:
\* 1000 e^x for x in {-1, -1/2, 0, 1/2, 1}; exp(nan) is nan
Exp(x) ==
    CASE IsNaN(x) -> NaN
      [] x = <<-1, 1>> -> <<368, 1000>>
      [] x = <<-1, 2>> -> <<607, 1000>>
      [] x = Zero      -> <<1000, 1000>>
      [] x = <<1, 2>>  -> <<1649, 1000>>
      [] x = One       -> <<2718, 1000>>

RECURSIVE RMax(_)
RMax(s) == IF Len(s) = 1 THEN s[1]
           ELSE LET m == RMax(Tail(s)) IN IF RLt(m, s[1]) THEN s[1] ELSE m

\* (X_embedding[j] - X_embedding[i]) / norm, per component; 0/0 is nan
UnitVector(i, j) ==
    LET dx == X_embedding[j][1] - X_embedding[i][1]
        dy == X_embedding[j][2] - X_embedding[i][2]
        \* the points lie on a line parallel to an axis: the norm is |dx| + |dy|
        norm == Abs(dx) + Abs(dy)
    IN  <<RDiv(<<dx, 1>>, <<norm, 1>>), RDiv(<<dy, 1>>, <<norm, 1>>)>>

\* lines 401-405: softmax of the affinities divided by their largest absolute
\* value
SoftmaxRow(i_vals) ==
    LET sigma == RMax([j \in 1..Len(i_vals) |-> RAbs(i_vals[j])])
        exp_i_vals == [j \in 1..Len(i_vals) |-> Exp(RDiv(i_vals[j], sigma))]
        denominator == RSum(exp_i_vals)
    IN  [j \in 1..Len(i_vals) |-> RDiv(exp_i_vals[j], denominator)]

\* lines 407-411: the drift of cell i from its edge probabilities
DriftRow(i, i_prob) ==
    [c \in 1..2 |->
        RSum([j \in 1..knn(i) |->
            RMul(RSub(i_prob[j], <<1, knn(i)>>), UnitVector(i, j_vec(i)[j])[c])])]

\* lines 383-392: the neighbors whose affinity has sign sig, and the softmax
\* of their absolute affinities, written back with the sign
SignGroup(i_vals, sig) == {j \in 1..Len(i_vals) : Sgn(i_vals[j][1]) = sig}
GroupProb(i_vals, sig, j) ==
    LET cur_ind == SignGroup(i_vals, sig)
        sigma == RMax([x \in 1..Len(i_vals) |->
                          IF x \in cur_ind THEN RAbs(i_vals[x]) ELSE Zero])
        exp_of(x) == Exp(RDiv(RAbs(i_vals[x]), sigma))
        denominator == RSum([x \in 1..Len(i_vals) |->
                                IF x \in cur_ind THEN exp_of(x) ELSE Zero])
    IN  RDiv(exp_of(j), denominator)

\* lines 380-399: neg_cells_trick; vals start at 0 and a neighbor of neither
\* sign group (affinity 0) keeps it
TrickRow(i_vals) ==
    [j \in 1..Len(i_vals) |->
        LET sig == Sgn(i_vals[j][1])
        IN  IF sig = 0 THEN Zero
            ELSE RMul(<<sig, 1>>, GroupProb(i_vals, sig, j))]
TrickDrift(i, i_vals) ==
    [c \in 1..2 |->
        RSum([j \in 1..knn(i) |->
            LET sig == Sgn(i_vals[j][1])
            IN  IF sig = 0 THEN Zero
                ELSE RMul(<<1, 2>>,
                          RMul(RSub(GroupProb(i_vals, sig, j),
                                    <<1, Cardinality(SignGroup(i_vals, sig))>>),
                               RMul(<<sig, 1>>, UnitVector(i, j_vec(i)[j])[c])))])]

\* vals[i * knn : (i + 1) * knn] and delta_X[i, :] of one pass of the loop
EmpVals(i, i_vals, neg_cells_trick) ==
    IF neg_cells_trick THEN TrickRow(i_vals) ELSE SoftmaxRow(i_vals)
EmpDrift(i, i_vals, neg_cells_trick) ==
    IF neg_cells_trick THEN TrickDrift(i, i_vals)
    ELSE DriftRow(i, SoftmaxRow(i_vals))

\* line 415: csr_matrix((vals, (rows, cols))): entry (i, c) is the sum of the
\* values collected for it
EmpMatrix(corr, neg_cells_trick) ==
    [i \in EmpCells |-> [c \in EmpCells |->
        RSum([j \in 1..knn(i) |->
            IF j_vec(i)[j] = c THEN EmpVals(i, corr[i], neg_cells_trick)[j]
            ELSE Zero])]]

EmpPending == <<>>

\* lines 353-417
empirical_vec ==
    /\ ~emp_returned
    /\ emp_T' = EmpMatrix(emp_corr, emp_neg_cells_trick)
    /\ emp_delta_X' = [i \in EmpCells |-> EmpDrift(i, emp_corr[i], emp_neg_cells_trick)]
    /\ emp_returned' = TRUE
    /\ UNCHANGED <<emp_corr, emp_neg_cells_trick>>

\* The affinities: correlations in {-1, 0, 1/2, 1}
Correlations == {<<-1, 1>>, Zero, <<1, 2>>, One}

InitEmp ==
    /\ emp_corr \in [EmpCells -> [1..2 -> Correlations]]
    /\ emp_neg_cells_trick \in BOOLEAN
    /\ emp_T = EmpPending
    /\ emp_delta_X = EmpPending
    /\ emp_returned = FALSE

IdleEmp ==
    /\ emp_corr = [i \in EmpCells |-> <<One, One>>]
    /\ emp_neg_cells_trick = FALSE
    /\ emp_T = EmpPending
    /\ emp_delta_X = EmpPending
    /\ emp_returned = FALSE

\* ------------------------------------------------------------------------
\* numba_random_seed(seed) and permute_rows_nsign(A)
\* ------------------------------------------------------------------------
\* Two runs (processes) of the program, each with its own generators: the
\* one of compiled (jit) code and NumPy's global one of interpreted code.
VARIABLES
    perm_A0,      \* the matrix both runs start from
    perm_A,       \* run -> its matrix, permuted in place
    rng,          \* run -> [numba |-> state, numpy |-> state] of its generators
    perm_seed,    \* run -> the seed it passed to numba_random_seed
    perm_pc       \* run -> "start", "seeded" or "done"

permVars == <<perm_A0, perm_A, rng, perm_seed, perm_pc>>

Runs == 1..2

\* The generator, as a linear congruential one on RngMod states
RngNext(st) == (5 * st + 3) % RngMod
\* np.random.seed(seed) called from the interpreter seeds the generator of
\* the interpreter, which compiled code does not draw from
numpy_random_seed(g, seed) == [g EXCEPT !.numpy = seed % RngMod]
\* np.random.seed(seed) inside compiled code seeds the generator of compiled
\* code (lines 421-436: the function is compiled by @jit(nopython=True))
numba_random_seed(g, seed) == [g EXCEPT !.numba = seed % RngMod]

\* a draw from 0 .. n - 1 out of a generator state
DrawBelow(st, n) == (st * n) \div RngMod

Swap(a, i, j) == [a EXCEPT ![i] = a[j], ![j] = a[i]]

\* np.random.shuffle(a) in compiled code: for i from len - 1 down to 1, swap
\* a[i] with a[j], j drawn from 0 .. i.  (Positions are 1-based here.)
\* Returns the shuffled row and the generator state.
RECURSIVE ShuffleFrom(_, _, _)
ShuffleFrom(a, i, st) ==
    IF i <= 1 THEN <<a, st>>
    ELSE LET st1 == RngNext(st)
             j == DrawBelow(st1, i) + 1
         IN  ShuffleFrom(Swap(a, i, j), i - 1, st1)
shuffle(a, st) == ShuffleFrom(a, Len(a), st)

\* np.random.choice(plmi, size=n) with plmi = [+1, -1]
RECURSIVE choice(_, _)
choice(n, st) ==
    IF n = 0 THEN <<<<>>, st>>
    ELSE LET st1 == RngNext(st)
             rest == choice(n - 1, st1)
         IN  <<<<IF DrawBelow(st1, 2) = 0 THEN 1 ELSE -1>> \o rest[1], rest[2]>>

\* lines 455-457, one pass of the loop over the rows: row i is shuffled in
\* place and multiplied by the drawn signs
PermuteRow(row, st) ==
    LET sh == shuffle(row, st)
        sg == choice(Len(row), sh[2])
    IN  <<[j \in 1..Len(row) |-> sh[1][j] * sg[1][j]], sg[2]>>

\* lines 439-457: the rows in order, on one generator; returns <<A, state>>
RECURSIVE PermuteRowsFrom(_, _, _)
PermuteRowsFrom(A, i, st) ==
    IF i > Len(A) THEN <<A, st>>
    ELSE LET r == PermuteRow(A[i], st)
         IN  PermuteRowsFrom([A EXCEPT ![i] = r[1]], i + 1, r[2])
permute_rows_nsign(A, g) ==
    LET r == PermuteRowsFrom(A, 1, g.numba)
    IN  <<r[1], [g EXCEPT !.numba = r[2]]>>

\* lines 76-77 of cell_velocities, or any caller that seeds
Seed(r) ==
    /\ perm_pc[r] = "start"
    /\ \E seed \in 0..MaxSeed :
         /\ rng' = [rng EXCEPT ![r] = numba_random_seed(@, seed)]
         /\ perm_seed' = [perm_seed EXCEPT ![r] = seed]
    /\ perm_pc' = [perm_pc EXCEPT ![r] = "seeded"]
    /\ UNCHANGED <<perm_A0, perm_A>>

\* a call of permute_rows_nsign, after seeding or without
Permute(r) ==
    /\ perm_pc[r] \in {"start", "seeded"}
    /\ LET res == permute_rows_nsign(perm_A[r], rng[r])
       IN  /\ perm_A' = [perm_A EXCEPT ![r] = res[1]]
           /\ rng' = [rng EXCEPT ![r] = res[2]]
    /\ perm_pc' = [perm_pc EXCEPT ![r] = IF @ = "seeded" THEN "done" ELSE "unseeded"]
    /\ UNCHANGED <<perm_A0, perm_seed>>

\* The velocity matrices: row i holds ((j + p_i) mod (MaxVal + 1)) - 1 for a
\* row offset p_i, so that rows hold negative, zero and repeated entries
VelocityRow(p) == [j \in 1..PermCols |-> ((j + p) % (MaxVal + 1)) - 1]
VelocityMatrices == [1..PermRows -> {VelocityRow(p) : p \in 0..MaxVal}]

InitPerm ==
    /\ perm_A0 \in VelocityMatrices
    /\ perm_A = [r \in Runs |-> perm_A0]
    /\ rng \in [Runs -> [numba : 0..MaxEntropy, numpy : {0}]]
    /\ perm_seed = [r \in Runs |-> 0]
    /\ perm_pc = [r \in Runs |-> "start"]

IdlePerm ==
    /\ perm_A0 = <<>>
    /\ perm_A = [r \in Runs |-> <<>>]
    /\ rng = [r \in Runs |-> [numba |-> 0, numpy |-> 0]]
    /\ perm_seed = [r \in Runs |-> 0]
    /\ perm_pc = [r \in Runs |-> "start"]

\* ------------------------------------------------------------------------
\* Specifications
\* ------------------------------------------------------------------------
vars == <<cvVars, calls, matVars, diffVars, sdVars, empVars, permVars>>

\* cell_velocities called repeatedly on one container
InitCalls ==
    InitCV /\ calls = 0 /\ IdleMat /\ InitDiff /\ InitSD /\ IdleEmp /\ IdlePerm

NextCV == cell_velocities /\ UNCHANGED <<matVars, diffVars, sdVars, empVars, permVars>>

SpecCV == InitCalls /\ [][NextCV]_vars

\* the steady-state module on a stored transition matrix
InitSteady ==
    IdleCV /\ calls = 0 /\ InitMat /\ InitDiff /\ InitSD /\ IdleEmp /\ IdlePerm

NextSteady ==
    \/ diffusion_call /\ UNCHANGED <<cvVars, sdVars, empVars, permVars>>
    \/ stationary_distribution /\ UNCHANGED <<cvVars, diffVars, empVars, permVars>>

SpecSteady == InitSteady /\ [][NextSteady]_vars

\* the two entry points that take a configuration string, on one container
\* that holds the matrices of an earlier run
InitEntry ==
    /\ InitCV /\ calls = 0 /\ InitDiff /\ InitSD /\ IdleEmp /\ IdlePerm
    /\ transition_matrix = Identity
    /\ transition_matrix_rnd \in {None, Identity}

NextEntry ==
    \/ cell_velocities /\ UNCHANGED <<matVars, diffVars, sdVars, empVars, permVars>>
    \/ stationary_distribution /\ UNCHANGED <<cvVars, diffVars, empVars, permVars>>

SpecEntry == InitEntry /\ [][NextEntry]_vars

\* the empirical kernel on the affinities of three cells
InitKernel ==
    IdleCV /\ calls = 0 /\ IdleMat /\ InitDiff /\ InitSD /\ InitEmp /\ IdlePerm

NextKernel == empirical_vec /\ UNCHANGED <<cvVars, calls, matVars, diffVars, sdVars, permVars>>

SpecKernel == InitKernel /\ [][NextKernel]_vars

\* the random control generator in two runs of the program
InitControl ==
    IdleCV /\ calls = 0 /\ IdleMat /\ InitDiff /\ InitSD /\ IdleEmp /\ InitPerm

NextControl ==
    \/ \E r \in Runs :
          Seed(r) /\ UNCHANGED <<cvVars, calls, matVars, diffVars, sdVars, empVars>>
    \/ \E r \in Runs :
          Permute(r) /\ UNCHANGED <<cvVars, calls, matVars, diffVars, sdVars, empVars>>

SpecControl == InitControl /\ [][NextControl]_vars

\* ------------------------------------------------------------------------
\* Properties
\* ------------------------------------------------------------------------

\* The inputs of the last cell_velocities call were valid for every method:
\* the container holds the neighbor graph the call asks for and the embedding
\* of the basis.  (The call writes none of these keys, so their presence after
\* the call is their presence before it.)
CvValidInputs ==
    /\ ~cv_args.neighbors_from_basis
    /\ "neighbors" \in DOMAIN adata_uns
    /\ cv_args.use_mnn => "mnn" \in DOMAIN adata_uns
    /\ cv_args.vkey = "velocity_S" => "X_umap" \in DOMAIN adata_obsm

CvResultKeys ==
    {<<"uns", "transition_matrix">>, <<"obsm", "velocity_umap">>,
     <<"uns", "grid_velocity_umap">>}
CvRndResultKeys ==
    {<<"uns", "transition_matrix_rnd">>, <<"obsm", "velocity_umap_rnd">>,
     <<"uns", "grid_velocity_umap_rnd">>}

\* C1: for each of the methods 'analytical', 'empirical' and 'transform' and
\* either value of calc_rnd_vel, a cell_velocities call on valid inputs
\* returns normally having stored transition_matrix, velocity_<basis> and
\* grid_velocity_<basis>, and with calc_rnd_vel their '_rnd' counterparts; no
\* combination reaches the final store with a stored value never assigned.
C1_EveryMethodStoresItsResults ==
    (cv_args.method \in SupportedMethods /\ CvValidInputs) =>
        /\ cv_raised = "none"
        /\ CvResultKeys \subseteq cv_written
        /\ cv_args.calc_rnd_vel => CvRndResultKeys \subseteq cv_written

\* The adata.obs keys a direction asks for
SdKeysOf(direction) ==
    CASE direction = "forward" -> {"sink_steady_state_distribution"}
      [] direction = "backward" -> {"source_steady_state_distribution"}
      [] direction = "both" -> {"sink_steady_state_distribution",
                                "source_steady_state_distribution"}
SdRndKeysOf(direction) ==
    CASE direction = "forward" -> {"sink_steady_state_distribution_rnd"}
      [] direction = "backward" -> {"source_steady_state_distribution_rnd"}
      [] direction = "both" -> {"sink_steady_state_distribution_rnd",
                                "source_steady_state_distribution_rnd"}

\* C2: a stationary_distribution call that returns writes exactly the keys of
\* its direction (sink for 'forward', source for 'backward', both for 'both')
\* and, with calc_rnd, exactly the same keys suffixed '_rnd', in the 'kmc'
\* branch and in the other branch.
C2_WritesExactlyTheKeysOfItsDirection ==
    (sd_args.direction \in {"both", "forward", "backward"} /\ sd_raised = "none") =>
        sd_written = SdKeysOf(sd_args.direction) \cup
                     (IF sd_args.calc_rnd THEN SdRndKeysOf(sd_args.direction) ELSE {})

\* The transpose of M with every row divided by its own row sum
RowNormalizedTranspose(M) ==
    [i \in Cells |-> [j \in Cells |-> RDiv(M[j][i], ColSum(M, i))]]

\* C4: diffusion(P, backward=True) equals diffusion(P', backward=False) with
\* P' the transpose of P with every row divided by its own sum; and the matrix
\* stationary_distribution ('kmc') installs before it computes the source
\* distribution is that P' of the stored transition matrix, whose rows sum to 1.
C4_BackwardIsRowNormalizedTranspose ==
    /\ (diff_args.kind # "none" /\ diff_args.backward
                                  /\ IsRowStochastic(transition_matrix)) =>
          diff_mu = diffusion(RowNormalizedTranspose(transition_matrix),
                              diff_args.P0, diff_args.steps, FALSE, diff_args.kind)
    /\ (sd_args.method = "kmc" /\ sd_args.direction \in {"both", "backward"}
                                /\ IsRowStochastic(transition_matrix)) =>
          /\ adata_obs["source_steady_state_distribution"].of =
                RowNormalizedTranspose(transition_matrix)
          /\ \A i \in Cells :
                RowSum(adata_obs["source_steady_state_distribution"].of, i) = One

\* C5: for a row-stochastic M, diffusion(M) with steps unset returns one
\* stationary distribution: a single vector mu over the cells with all
\* entries >= 0, sum 1 and mu.M = mu, also when several eigenvalues are
\* close to 1.
C5_EigReturnsOneStationaryDistribution ==
    (/\ diff_args.kind # "none" /\ diff_args.steps = None /\ ~diff_args.backward
     /\ IsRowStochastic(transition_matrix)) =>
        /\ Len(diff_mu.cols) = 1
        /\ \A i \in Cells : RLe(Zero, diff_mu.cols[1][i])
        /\ RSum(diff_mu.cols[1]) = One
        /\ VecMat(diff_mu.cols[1], transition_matrix) = diff_mu.cols[1]

\* No eigenvalue of the 2 x 2 matrix M is close to 1.  With p the
\* characteristic polynomial and e an eigenvalue, p(1) = (1 - e)(1 - e') and
\* e' = tr - e, so |p(1)| <= |1 - e| (|2 - tr| + |1 - e|): when |2 - tr| <= 4
\* and |p(1)| >= 1/1000, no eigenvalue is within 100001/10^10 of 1.
NoEigenvalueCloseTo1(M) ==
    /\ RLe(RAbs(RSub(<<2, 1>>, Trace2(M))), <<4, 1>>)
    /\ RLe(<<1, 1000>>, RAbs(CharPolyAt1(M)))

\* C6: diffusion(M) with steps unset fails with an error whenever no
\* eigenvalue of M is close to 1: it returns no value (empty, NaN or
\* otherwise), and the caller's matrix is unchanged.
C6_EigFailsWithoutUnitEigenvalue ==
    (/\ diff_args.kind # "none" /\ diff_args.steps = None /\ ~diff_args.backward
     /\ NoEigenvalueCloseTo1(transition_matrix)) =>
        diff_raised # "none" /\ diff_mu = Pending

\* the mean of the rows of A, column by column
MeanOfRows(A) ==
    [j \in Cells |-> RDiv(ColSum(A, j), <<NumCells, 1>>)]

\* C10: with steps = N, diffusion uses exactly the N-th power of M in both
\* modes: without P0 the result is the column-wise mean of the rows of M^N,
\* with P0 it is P0.M^N; so for the uniform P0 both modes return the same
\* vector.
C10_StepsUseTheNthPower ==
    (/\ diff_args.kind # "none" /\ diff_args.steps # None /\ ~diff_args.backward
     /\ IsRowStochastic(transition_matrix)) =>
        LET MN == matrix_power(transition_matrix, diff_args.steps[1])
        IN  /\ diff_mu.cols = <<IF diff_args.P0 = None THEN MeanOfRows(MN)
                                ELSE VecMat(diff_args.P0, MN)>>
            /\ diff_args.P0 = None => diff_mu.cols = <<VecMat(Uniform, MN)>>

\* C7: a configuration error is raised at entry, before any computation and
\* any write: cell_velocities with an unsupported method and
\* stationary_distribution with a direction other than 'both', 'forward' or
\* 'backward' each raise (on a container that is valid otherwise), having
\* invoked no gene selection, dimensionality reduction or PCA fit and having
\* written nothing.
C7_ConfigurationErrorsRaisedAtEntry ==
    /\ (cv_args.method \notin SupportedMethods \cup {"none"} /\ CvValidInputs) =>
          /\ cv_raised # "none"
          /\ cv_invoked \cap {"set_velocity_genes", "reduceDimension", "PCA.fit"} = {}
          /\ cv_written = {}
    /\ (sd_args.direction \notin {"both", "forward", "backward", "none"}) =>
          /\ sd_raised # "none"
          /\ sd_written = {}

\* the rows of the empirical transition matrix
EmpRowStochastic(T, i) ==
    /\ \A c \in EmpCells : ~IsNaN(T[i][c]) /\ RLe(Zero, T[i][c])
    /\ RSum(T[i]) = One

\* C3: the transition matrix returned by _empirical_vec is row-stochastic
\* whenever all affinities are finite and non-zero: every entry is >= 0 and
\* every row sums to 1, under both normalization policies.
C3_EmpiricalMatrixIsRowStochastic ==
    (emp_returned /\ \A i \in EmpCells : \A j \in 1..knn(i) : emp_corr[i][j] # Zero) =>
        \A i \in EmpCells : EmpRowStochastic(emp_T, i)

AllZeroAffinities(i) == \A j \in 1..knn(i) : emp_corr[i][j] = Zero

\* C9: a cell whose affinities are all zero gets the uniform distribution 1/k
\* over its k neighbors as its row of the transition matrix, and no NaN is
\* written into that row or into the drift of the cell.
C9_ZeroAffinityRowIsUniform ==
    emp_returned =>
        \A i \in EmpCells : AllZeroAffinities(i) =>
            /\ \A c \in EmpCells :
                  emp_T[i][c] = IF c = i THEN Zero ELSE <<1, knn(i)>>
            /\ \A c \in 1..2 : ~IsNaN(emp_delta_X[i][c])

\* the number of entries of a row with absolute value v
CountAbs(row, v) == Cardinality({j \in 1..Len(row) : Abs(row[j]) = v})
SameAbsMultiset(rowA, rowB) ==
    /\ Len(rowA) = Len(rowB)
    /\ \A v \in 0..MaxVal : CountAbs(rowA, v) = CountAbs(rowB, v)
    /\ \A j \in 1..Len(rowA) : Abs(rowA[j]) \in 0..MaxVal

\* C8: permute_rows_nsign preserves, row by row, the multiset of absolute
\* values of the matrix, and it is reproducible: two runs that seed with the
\* same seed through numba_random_seed and start from equal matrices end with
\* equal matrices.
C8_PermutationKeepsRowsAndIsReproducible ==
    /\ \A r \in Runs :
          /\ Len(perm_A[r]) = Len(perm_A0)
          /\ \A i \in 1..Len(perm_A0) : SameAbsMultiset(perm_A[r][i], perm_A0[i])
    /\ (/\ \A r \in Runs : perm_pc[r] = "done"
        /\ perm_seed[1] = perm_seed[2]) => perm_A[1] = perm_A[2]

\* both runs have seeded with the same seed and permuted, from generators that
\* started in different states, and the matrix has changed
C8_Witness ==
    /\ \A r \in Runs : perm_pc[r] = "done"
    /\ perm_seed[1] = perm_seed[2]
    /\ perm_A[1] # perm_A0
    /\ \E i \in 1..PermRows, j \in 1..PermCols : perm_A[1][i][j] = - perm_A0[i][j] /\ perm_A0[i][j] # 0

\* C11: after any sequence of cell_velocities calls (method 'analytical',
\* n_pca_components set) on one container, also when the X of a call differs
\* from the X the cached PCA was fitted on, the velocity_pca a call stores is
\* pca_fit.transform(X + V) - pca_fit.transform(X) for the call's own X and V
\* and the pca_fit held in the container.
C11_VelocityPcaIsOfTheCurrentX ==
    (/\ cv_args.method = "analytical" /\ cv_args.n_pca_components # "None"
     /\ cv_raised = "none") =>
        adata_obsm["velocity_pca"] =
            MatSub(pca_transform(adata_uns["pca_fit"], MatAdd(CvX(cv_args), CvV(cv_args))),
                   pca_transform(adata_uns["pca_fit"], CvX(cv_args)))

\* C12: after a cell_velocities call with method 'analytical' the model
\* persisted under uns['kmc'] is the engine fitted on the real velocities, the
\* one whose P is stored under uns['transition_matrix'], also when calc_rnd_vel
\* is true: the randomized-control fit feeds the '_rnd' keys only.
C12_PersistedModelIsTheRealFit ==
    (cv_args.method = "analytical" /\ cv_raised = "none") =>
        /\ adata_uns["transition_matrix"] = "real"
        /\ adata_uns["kmc"] = adata_uns["transition_matrix"]
        /\ \A k \in DOMAIN adata_uns :
              (k \in {"kmc", "transition_matrix", "grid_velocity_umap"}
                  => adata_uns[k] # "rnd")

====
